---- MODULE Spec2Model ----
(***************************************************************************)
(* Calendar query engine of the Jewish-calendar assistant (src/ai.ts):     *)
(* convertDate, parseHebrewDate, findJewishHoliday, listJewishHolidays and *)
(* the chat loop that exposes them as tools.                               *)
(*                                                                         *)
(* Text is a sequence of one-character strings, so that formatting and     *)
(* parsing are computed character by character.  A day is its absolute     *)
(* (Rata Die) day number, as HDate.abs() reports it.                       *)
(***************************************************************************)
EXTENDS Integers, Sequences, FiniteSets, TLC

VARIABLES
    env,        \* the process environment: time zone side and Date-parser leniency
    world,      \* the events the calendar provider has: indices into EventPool
    faultAt,    \* the civil year whose calendar the provider raises for (0: none)
    messages,   \* the conversation list of the chat loop (src/ai.ts:13)
    pending,    \* tool calls issued by the harness and not yet executed
    done,       \* executed tool calls with the value each returned
    turn        \* position of the chat loop: "idle" or "streaming"

vars == <<env, world, faultAt, messages, pending, done, turn>>

\* F applied to the value of x: x is evaluated once, before F uses it
With(x, F(_)) == CHOOSE r \in {F(v) : v \in {x}} : TRUE

(***************************************************************************)
(* Text                                                                    *)
(***************************************************************************)
Null == <<"null">>

DigitChars == <<"0", "1", "2", "3", "4", "5", "6", "7", "8", "9">>

UpperChars ==
    <<"A", "B", "C", "D", "E", "F", "G", "H", "I", "J", "K", "L", "M",
      "N", "O", "P", "Q", "R", "S", "T", "U", "V", "W", "X", "Y", "Z">>

LowerChars ==
    <<"a", "b", "c", "d", "e", "f", "g", "h", "i", "j", "k", "l", "m",
      "n", "o", "p", "q", "r", "s", "t", "u", "v", "w", "x", "y", "z">>

IsDigit(c) == \E i \in 1..10 : DigitChars[i] = c

DigitVal(c) == (CHOOSE i \in 1..10 : DigitChars[i] = c) - 1

IsUpper(c) == \E i \in 1..26 : UpperChars[i] = c

IsLower(c) == \E i \in 1..26 : LowerChars[i] = c

\* [A-Za-z]
IsLetter(c) == IsUpper(c) \/ IsLower(c)

\* \s, over the characters the inputs use
IsSpace(c) == c = " "

\* [\/\-]
IsSeparator(c) == c = "/" \/ c = "-"

LowerChar(c) ==
    IF IsUpper(c) THEN LowerChars[CHOOSE i \in 1..26 : UpperChars[i] = c] ELSE c

\* String.prototype.toLowerCase
toLowerCase(s) == With(s, LAMBDA v : [i \in 1..Len(v) |-> LowerChar(v[i])])

\* String.prototype.includes
includes(s, t) ==
    \E i \in 0..(Len(s) - Len(t)) : SubSeq(s, i + 1, i + Len(t)) = t

\* parseInt of a run of decimal digits
RECURSIVE parseInt(_)
parseInt(ds) ==
    With(ds, LAMBDA v :
        IF v = <<>> THEN 0
        ELSE 10 * parseInt(SubSeq(v, 1, Len(v) - 1)) + DigitVal(v[Len(v)]))

\* a natural number in decimal, as string interpolation prints it
RECURSIVE NumText(_)
NumText(n) ==
    With(n, LAMBDA v :
        IF v < 10 THEN <<DigitChars[v + 1]>>
        ELSE NumText(v \div 10) \o <<DigitChars[(v % 10) + 1]>>)

\* zero-padded to two digits, as toISOString prints month and day
Pad2(n) == With(NumText(n), LAMBDA t : IF Len(t) < 2 THEN <<"0">> \o t ELSE t)

\* length of the longest run of characters satisfying Is that starts at s[i]
RECURSIVE RunLen(_, _, _)
RunLen(Is(_), s, i) ==
    With(i, LAMBDA k :
        IF k > Len(s) \/ ~Is(s[k]) THEN 0 ELSE 1 + RunLen(Is, s, k + 1))

(***************************************************************************)
(* The Gregorian calendar, as the provider's greg2abs / abs2greg compute   *)
(* it.                                                                     *)
(***************************************************************************)
IsGregLeap(y) == (y % 4 = 0) /\ ((y % 100 # 0) \/ (y % 400 = 0))

GregDaysInMonth(m, y) ==
    IF m = 2 THEN (IF IsGregLeap(y) THEN 29 ELSE 28)
    ELSE IF m \in {4, 6, 9, 11} THEN 30 ELSE 31

RECURSIVE DaysBeforeMonth(_, _)
DaysBeforeMonth(m, y) ==
    With(m, LAMBDA v :
        IF v <= 1 THEN 0 ELSE DaysBeforeMonth(v - 1, y) + GregDaysInMonth(v - 1, y))

greg2abs(y, m, d) ==
    365 * (y - 1) + ((y - 1) \div 4) - ((y - 1) \div 100) + ((y - 1) \div 400)
        + DaysBeforeMonth(m, y) + d

GregYearOf(abs) ==
    CHOOSE y \in (abs \div 366)..((abs \div 365) + 1) :
        greg2abs(y, 1, 1) <= abs /\ abs < greg2abs(y + 1, 1, 1)

GregMonthOf(abs, y) ==
    CHOOSE m \in 1..12 :
        greg2abs(y, m, 1) <= abs /\ abs < greg2abs(y, m, 1) + GregDaysInMonth(m, y)

abs2greg(abs) ==
    With(abs, LAMBDA a :
    With(GregYearOf(a), LAMBDA y :
    With(GregMonthOf(a, y), LAMBDA m :
        [yy |-> y, mm |-> m, dd |-> a - greg2abs(y, m, 1) + 1])))

\* Date.prototype.getDay of the civil day: 0 = Sunday .. 6 = Saturday
DayOfWeek(abs) == abs % 7

(***************************************************************************)
(* The Hebrew calendar, as the provider's HDate computes it.  Months are   *)
(* numbered from Nisan = 1; Tishrei = 7 starts the year; Adar I = 12 and   *)
(* Adar II = 13.                                                           *)
(***************************************************************************)
isLeapYear(y) == (1 + 7 * y) % 19 < 7

monthsInYear(y) == IF isLeapYear(y) THEN 13 ELSE 12

\* days from the epoch to Rosh Hashana of year y
elapsedDays(year) ==
    With(year, LAMBDA y :
    With(y - 1, LAMBDA prev :
    With(235 * (prev \div 19) + 12 * (prev % 19)
             + (((prev % 19) * 7 + 1) \div 19), LAMBDA mElapsed :
    With(204 + 793 * (mElapsed % 1080), LAMBDA pElapsed :
    With(5 + 12 * mElapsed + 793 * (mElapsed \div 1080)
             + (pElapsed \div 1080), LAMBDA hElapsed :
    With((pElapsed % 1080) + 1080 * (hElapsed % 24), LAMBDA parts :
    With(1 + 29 * mElapsed + (hElapsed \div 24), LAMBDA day :
    With(IF \/ parts >= 19440
            \/ (day % 7 = 2 /\ parts >= 9924 /\ ~isLeapYear(y))
            \/ (day % 7 = 1 /\ parts >= 16789 /\ isLeapYear(prev))
         THEN day + 1 ELSE day, LAMBDA altDay :
        IF altDay % 7 \in {0, 3, 5} THEN altDay + 1 ELSE altDay))))))))

daysInYear(y) == elapsedDays(y + 1) - elapsedDays(y)

longCheshvan(y) == daysInYear(y) % 10 = 5

shortKislev(y) == daysInYear(y) % 10 = 3

daysInMonth(month, y) ==
    With(month, LAMBDA m :
        IF \/ m \in {2, 4, 6, 10, 13}
           \/ (m = 12 /\ ~isLeapYear(y))
           \/ (m = 8 /\ ~longCheshvan(y))
           \/ (m = 9 /\ shortKislev(y))
        THEN 29 ELSE 30)

RECURSIVE SumMonths(_, _, _)
SumMonths(from, to, y) ==
    With(from, LAMBDA m :
        IF m > to THEN 0 ELSE daysInMonth(m, y) + SumMonths(m + 1, to, y))

hebrew2abs(year, month, d) ==
    With(year, LAMBDA y :
    With(month, LAMBDA m :
        elapsedDays(y) + d - 1373429
            + (IF m < 7
               THEN SumMonths(7, monthsInYear(y), y) + SumMonths(1, m - 1, y)
               ELSE SumMonths(7, m - 1, y))))

\* the Hebrew year whose Rosh Hashana is the last one on or before abs
RECURSIVE YearOf(_, _)
YearOf(abs, year) ==
    With(year, LAMBDA y :
        IF hebrew2abs(y + 1, 7, 1) <= abs THEN YearOf(abs, y + 1) ELSE y)

RECURSIVE MonthOf(_, _, _)
MonthOf(abs, y, month) ==
    With(month, LAMBDA m :
        IF abs > hebrew2abs(y, m, daysInMonth(m, y)) THEN MonthOf(abs, y, m + 1)
        ELSE m)

abs2hebrew(abs) ==
    With(abs, LAMBDA a :
    With(YearOf(a, ((a + 1373428) * 1000) \div 365500), LAMBDA y :
    With(MonthOf(a, y, IF a < hebrew2abs(y, 1, 1) THEN 7 ELSE 1), LAMBDA m :
        [yy |-> y, mm |-> m, dd |-> 1 + a - hebrew2abs(y, m, 1)])))

(***************************************************************************)
(* JavaScript Date.  A Date is an instant; the ones the engine builds are  *)
(* midnights: UTC midnight of a day (an ISO date-only string) or local     *)
(* midnight of a day (the provider's greg(), a "Mon D, YYYY" string).      *)
(* The environment's time zone lies west of UTC (tz = -1), on it (0), or   *)
(* east of it (1), and decides which civil day a midnight falls on.        *)
(***************************************************************************)
TimeZones == {-1, 0, 1}

Environments == [tz : TimeZones, lenient : BOOLEAN]

\* a lenient date parser, west and east of UTC
LenientZones == {e \in Environments : e.lenient /\ e.tz # 0}

InvalidDate == [valid |-> FALSE, zone |-> "utc", day |-> 0]

UtcMidnight(abs) == [valid |-> TRUE, zone |-> "utc", day |-> abs]

LocalMidnight(abs) == [valid |-> TRUE, zone |-> "local", day |-> abs]

\* getFullYear / getMonth / getDate / toLocaleDateString: the civil day here
LocalDay(date, e) ==
    IF date.zone = "utc" /\ e.tz < 0 THEN date.day - 1 ELSE date.day

\* toISOString: the civil day at UTC
UtcDay(date, e) ==
    IF date.zone = "local" /\ e.tz > 0 THEN date.day - 1 ELSE date.day

AllDigits(s, from, to) == \A i \in from..to : IsDigit(s[i])

\* "YYYY-MM-DD"
IsoShape(s) ==
    /\ Len(s) = 10
    /\ AllDigits(s, 1, 4) /\ s[5] = "-"
    /\ AllDigits(s, 6, 7) /\ s[8] = "-"
    /\ AllDigits(s, 9, 10)

MonthAbbrev ==
    << <<"J", "a", "n">>, <<"F", "e", "b">>, <<"M", "a", "r">>,
       <<"A", "p", "r">>, <<"M", "a", "y">>, <<"J", "u", "n">>,
       <<"J", "u", "l">>, <<"A", "u", "g">>, <<"S", "e", "p">>,
       <<"O", "c", "t">>, <<"N", "o", "v">>, <<"D", "e", "c">> >>

\* "Mon D, YYYY"
ShortShape(s) ==
    /\ Len(s) >= 11
    /\ \E m \in 1..12 : SubSeq(s, 1, 3) = MonthAbbrev[m]
    /\ s[4] = " "
    /\ LET n == RunLen(IsDigit, s, 5)
       IN  /\ n \in {1, 2}
           /\ Len(s) = 4 + n + 6
           /\ s[5 + n] = "," /\ s[6 + n] = " "
           /\ AllDigits(s, 7 + n, 10 + n)

\* new Date(string).  An ISO date-only string is UTC midnight; a day of the
\* month past the month's end is rejected by a strict parser and rolled over
\* into the next month by a lenient one.  "Mon D, YYYY" is local midnight.
\* Every other string of the inputs is an Invalid Date.
DateParse(s, e) ==
    IF IsoShape(s)
    THEN With(parseInt(SubSeq(s, 1, 4)), LAMBDA y :
         With(parseInt(SubSeq(s, 6, 7)), LAMBDA m :
         With(parseInt(SubSeq(s, 9, 10)), LAMBDA d :
             IF /\ m \in 1..12
                /\ d >= 1
                /\ d <= (IF e.lenient THEN 31 ELSE GregDaysInMonth(m, y))
             THEN UtcMidnight(greg2abs(y, m, d))
             ELSE InvalidDate)))
    ELSE IF ShortShape(s)
    THEN With(RunLen(IsDigit, s, 5), LAMBDA n :
         With(CHOOSE mm \in 1..12 : SubSeq(s, 1, 3) = MonthAbbrev[mm], LAMBDA m :
         With(parseInt(SubSeq(s, 5, 4 + n)), LAMBDA d :
         With(parseInt(SubSeq(s, 7 + n, 10 + n)), LAMBDA y :
             IF d >= 1 /\ d <= 31
             THEN LocalMidnight(greg2abs(y, m, d))
             ELSE InvalidDate))))
    ELSE InvalidDate

\* toISOString().split("T")[0]
IsoText(abs) ==
    With(abs2greg(abs), LAMBDA g :
        NumText(g.yy) \o <<"-">> \o Pad2(g.mm) \o <<"-">> \o Pad2(g.dd))

\* toLocaleDateString("en-US", {weekday, year, month, day: long forms}): the
\* fields it prints
LongDate(abs) ==
    With(abs, LAMBDA a :
    With(abs2greg(a), LAMBDA g :
        [weekday |-> DayOfWeek(a), month |-> g.mm, day |-> g.dd, year |-> g.yy]))

\* toLocaleDateString("en-US", {month: "short", day: "numeric"}): "Mon D"
ShortDate(abs) ==
    With(abs2greg(abs), LAMBDA g : MonthAbbrev[g.mm] \o <<" ">> \o NumText(g.dd))

(***************************************************************************)
(* HDate, the provider's Hebrew date.                                      *)
(***************************************************************************)
MonthNames ==
    << <<"N", "i", "s", "a", "n">>,
       <<"I", "y", "y", "a", "r">>,
       <<"S", "i", "v", "a", "n">>,
       <<"T", "a", "m", "u", "z">>,
       <<"A", "v">>,
       <<"E", "l", "u", "l">>,
       <<"T", "i", "s", "h", "r", "e", "i">>,
       <<"C", "h", "e", "s", "h", "v", "a", "n">>,
       <<"K", "i", "s", "l", "e", "v">>,
       <<"T", "e", "v", "e", "t">>,
       <<"S", "h", "'", "v", "a", "t">>,
       <<"A", "d", "a", "r">>,
       <<"A", "d", "a", "r", " ", "I", "I">> >>

AdarI == <<"A", "d", "a", "r", " ", "I">>

\* hDate.getMonthName(): month 12 is "Adar" in a common year, "Adar I" in a
\* leap year
getMonthName(h) ==
    IF h.mm = 12 /\ isLeapYear(h.yy) THEN AdarI ELSE MonthNames[h.mm]

\* hDate.toString(): "<day> <month name> <year>"
HDateText(date) ==
    With(date, LAMBDA h :
        NumText(h.dd) \o <<" ">> \o getMonthName(h) \o <<" ">> \o NumText(h.yy))

\* The constructor's normalisation: a month or day outside the year or the
\* month is carried into the neighbouring month or year, never rejected.
RECURSIVE Fix(_)
Fix(date) ==
    With(date, LAMBDA h :
        IF h.mm = 13 /\ ~isLeapYear(h.yy)
        THEN Fix([h EXCEPT !.mm = 12])
        ELSE IF h.mm < 1
        THEN Fix([h EXCEPT !.mm = h.mm + monthsInYear(h.yy), !.yy = h.yy - 1])
        ELSE IF h.mm > monthsInYear(h.yy)
        THEN Fix([h EXCEPT !.mm = h.mm - monthsInYear(h.yy), !.yy = h.yy + 1])
        ELSE IF h.dd < 1
        THEN With(IF h.mm = 7 THEN h.yy - 1 ELSE h.yy, LAMBDA y :
                 Fix([yy |-> y, mm |-> h.mm - 1,
                      dd |-> h.dd + daysInMonth(h.mm, y)]))
        ELSE IF h.dd > daysInMonth(h.mm, h.yy)
        THEN With(IF h.mm = 6 THEN h.yy + 1 ELSE h.yy, LAMBDA y :
                 Fix([yy |-> y,
                      mm |-> IF h.mm = monthsInYear(y) THEN 1 ELSE h.mm + 1,
                      dd |-> h.dd - daysInMonth(h.mm, y)]))
        ELSE h)

Thrown(msg) == [ok |-> FALSE, message |-> msg, value |-> 0]

Returned(v) == [ok |-> TRUE, message |-> <<>>, value |-> v]

\* HDate.monthFromName: the name is recognised by its leading letters, in
\* any case; a name it does not recognise raises a RangeError.
monthFromName(name) ==
    With(toLowerCase(name), LAMBDA c :
    LET c1 == IF Len(c) >= 1 THEN c[1] ELSE ""
        c2 == IF Len(c) >= 2 THEN c[2] ELSE ""
        cz == IF Len(c) >= 1 THEN c[Len(c)] ELSE ""
        cy == IF Len(c) >= 2 THEN c[Len(c) - 1] ELSE ""
        no == Thrown(<<"Unable to parse month name: ">> \o name)
    IN  CASE c1 = "n" -> IF c2 = "o" THEN no ELSE Returned(1)
          [] c1 = "i" -> Returned(2)
          [] c1 = "e" -> Returned(6)
          [] c1 = "c" -> Returned(8)
          [] c1 = "k" -> Returned(9)
          [] c1 = "s" -> IF c2 = "i" THEN Returned(3)
                         ELSE IF c2 = "h" THEN Returned(11) ELSE no
          [] c1 = "t" -> IF c2 = "a" THEN Returned(4)
                         ELSE IF c2 = "i" THEN Returned(7)
                         ELSE IF c2 = "e" THEN Returned(10) ELSE no
          [] c1 = "a" -> IF c2 = "v" THEN Returned(5)
                         ELSE IF c2 = "d"
                         THEN (IF \/ cz = "1"
                                  \/ cz = "a"
                                  \/ (cz = "i" /\ Len(c) >= 2 /\ cy # "i")
                               THEN Returned(12) ELSE Returned(13))
                         ELSE no
          [] OTHER -> no)

\* HDate.monthNum: a month number above 14 raises a RangeError
monthNum(parts) ==
    IF parts.named THEN monthFromName(parts.monthName)
    ELSE IF parts.monthNumber > 14
    THEN Thrown(<<"Invalid month number: ">> \o NumText(parts.monthNumber))
    ELSE Returned(parts.monthNumber)

\* new HDate(day, month, year)
NewHDate(parts) ==
    With(monthNum(parts), LAMBDA m :
        IF ~m.ok THEN m
        ELSE With(Fix([yy |-> parts.year, mm |-> m.value, dd |-> 1]), LAMBDA h0 :
                 Returned(Fix([h0 EXCEPT !.dd = parts.day]))))

\* new HDate(date): the Hebrew date of the Date's local civil day
HDateOfDate(date, e) == abs2hebrew(LocalDay(date, e))

\* hDate.abs()
HAbs(h) == With(h, LAMBDA v : hebrew2abs(v.yy, v.mm, v.dd))

\* hDate.greg(): local midnight of the day
HGreg(h) == LocalMidnight(HAbs(h))

\* hDate.onOrAfter(dow): abs + 6 - ((abs + 6 - dow) % 7)
onOrAfter(dow, abs) == With(abs, LAMBDA a : (a + 6) - ((a + 6 - dow) % 7))

(***************************************************************************)
(* The texts of the provider's events.                                     *)
(***************************************************************************)
TxtPurim ==
    <<"P", "u", "r", "i", "m">>

TxtErevPesach ==
    <<"E", "r", "e", "v", " ", "P", "e", "s", "a", "c", "h">>

TxtPesachI ==
    <<"P", "e", "s", "a", "c", "h", " ", "I">>

TxtTaanitBechorot ==
    <<"T", "a", "'", "a", "n", "i", "t", " ", "B", "e", "c", "h", "o", "r",
      "o", "t">>

TxtCandleLighting ==
    <<"C", "a", "n", "d", "l", "e", " ", "l", "i", "g", "h", "t", "i", "n",
      "g">>

TxtHavdalah ==
    <<"H", "a", "v", "d", "a", "l", "a", "h">>

TxtFastBegins ==
    <<"F", "a", "s", "t", " ", "b", "e", "g", "i", "n", "s">>

TxtFastEnds ==
    <<"F", "a", "s", "t", " ", "e", "n", "d", "s">>

TxtCandles724 ==
    <<"C", "a", "n", "d", "l", "e", " ", "l", "i", "g", "h", "t", "i", "n",
      "g", ":", " ", "7", ":", "2", "4", "p", "m">>

TxtCandles728 ==
    <<"C", "a", "n", "d", "l", "e", " ", "l", "i", "g", "h", "t", "i", "n",
      "g", ":", " ", "7", ":", "2", "8", "p", "m">>

TxtHavdalah829 ==
    <<"H", "a", "v", "d", "a", "l", "a", "h", " ", "(", "4", "2", " ", "m",
      "i", "n", ")", ":", " ", "8", ":", "2", "9", "p", "m">>

TxtFastBegins443 ==
    <<"F", "a", "s", "t", " ", "b", "e", "g", "i", "n", "s", ":", " ", "4",
      ":", "4", "3", "a", "m">>

TxtParsha ==
    <<"P", "a", "r", "a", "s", "h", "a", "t", " ", "A", "c", "h", "r", "e",
      "i", " ", "M", "o", "t">>

Event(render, desc, abs, categories, needs, eventTime, clock, mins, url) ==
    [render |-> render, desc |-> desc, abs |-> abs, categories |-> categories,
     needs |-> needs, eventTime |-> eventTime, eventTimeStr |-> clock[1],
     fmtTime |-> clock[2], mins |-> mins, url |-> url]

NoClock == <<Null, Null>>

\* Events of spring 2024 and 2025 as the provider emits them for New York,
\* in the provider's order: by date.
EventPool ==
    << Event(TxtPurim, TxtPurim, greg2abs(2024, 3, 24),
             <<"holiday", "minor">>, "none", 0, NoClock, 0,
             <<"https://hebcal.com/h/purim-2024">>),
       Event(TxtErevPesach, TxtErevPesach, greg2abs(2024, 4, 22),
             <<"holiday", "major">>, "none", 0, NoClock, 0,
             <<"https://hebcal.com/h/pesach-2024">>),
       Event(TxtTaanitBechorot, TxtTaanitBechorot, greg2abs(2024, 4, 22),
             <<"holiday", "minor", "fast">>, "none", 0, NoClock, 0, <<>>),
       Event(TxtFastBegins443, TxtFastBegins, greg2abs(2024, 4, 22),
             <<"zmanim", "fast">>, "candlelighting", 283, <<<<"04:43">>, <<"4:43am">>>>, 0, <<>>),
       Event(TxtCandles724, TxtCandleLighting, greg2abs(2024, 4, 22),
             <<"candles">>, "candlelighting", 1164, <<<<"19:24">>, <<"7:24pm">>>>, 0, <<>>),
       Event(TxtPesachI, TxtPesachI, greg2abs(2024, 4, 23),
             <<"holiday", "major">>, "none", 0, NoClock, 0,
             <<"https://hebcal.com/h/pesach-2024">>),
       Event(TxtHavdalah829, TxtHavdalah, greg2abs(2024, 4, 24),
             <<"havdalah">>, "candlelighting", 1229, <<<<"20:29">>, <<"8:29pm">>>>, 42, <<>>),
       Event(TxtCandles728, TxtCandleLighting, greg2abs(2024, 4, 26),
             <<"candles">>, "candlelighting", 1168, <<<<"19:28">>, <<"7:28pm">>>>, 0, <<>>),
       Event(TxtParsha, TxtParsha, greg2abs(2024, 5, 4),
             <<"parashat">>, "sedrot", 0, NoClock, 0, <<>>),
       Event(TxtPesachI, TxtPesachI, greg2abs(2025, 4, 13),
             <<"holiday", "major">>, "none", 0, NoClock, 0,
             <<"https://hebcal.com/h/pesach-2025">>) >>

\* Location.lookup("New York")
NewYork ==
    [name |-> <<"New York">>, latitude |-> <<"40.71427">>,
     longitude |-> <<"-74.00597">>, timezone |-> <<"America/New_York">>]

(***************************************************************************)
(* The calendar provider: HebrewCalendar.calendar(options).  An event is   *)
(*   render     event.render("en")                                         *)
(*   desc       event.getDesc()                                            *)
(*   abs        event.getDate().abs()                                      *)
(*   categories event.getCategories()                                      *)
(*   needs      the option that must be on for the provider to emit it     *)
(*   eventTime  its clock time, in minutes after midnight (0: none)        *)
(*   mins       its havdalahMins (0: none)                                 *)
(*   eventTimeStr, fmtTime  its 24-hour and 12-hour clock texts            *)
(* The provider's calendar call raises for the civil year faultAt names.   *)
(***************************************************************************)
InRange(e, opts) == opts.start <= e.abs /\ e.abs <= opts.end

Emitted(e, opts) ==
    /\ InRange(e, opts)
    /\ \/ e.needs = "none"
       \/ e.needs = "candlelighting" /\ opts.candlelighting
       \/ e.needs = "sedrot" /\ opts.sedrot
       \/ e.needs = "omer" /\ opts.omer
       \/ e.needs = "molad" /\ opts.molad

ProviderRaises(year) == faultAt.year = year

ProviderError ==
    [isError |-> faultAt.isError, message |-> <<"provider failure">>]

\* the events of the pool the provider has in this run, in the pool's order
RECURSIVE PickEvents(_)
PickEvents(S) ==
    IF S = {} THEN <<>>
    ELSE With(CHOOSE j \in S : \A k \in S : j <= k, LAMBDA i :
             <<EventPool[i]>> \o PickEvents(S \ {i}))

calendar(opts) == SelectSeq(PickEvents(world), LAMBDA e : Emitted(e, opts))

\* options {year, isHebrewYear: false}: the civil year, 1 January to 31 December
YearOptions(year, extras) ==
    [start |-> greg2abs(year, 1, 1), end |-> greg2abs(year, 12, 31),
     candlelighting |-> extras, sedrot |-> extras, omer |-> extras,
     molad |-> extras]

\* options {start, end, sedrot: true}
DayOptions(day) ==
    [start |-> day, end |-> day, candlelighting |-> FALSE, sedrot |-> TRUE,
     omer |-> FALSE, molad |-> FALSE]

HasCategory(e, c) == \E i \in 1..Len(e.categories) : e.categories[i] = c

\* error instanceof Error ? error.message : "Unknown error"
ErrorMessage(err) == IF err.isError THEN err.message ELSE <<"Unknown error">>

(***************************************************************************)
(* parseHebrewDate (src/ai.ts:318-348)                                     *)
(***************************************************************************)
NoParts ==
    [isNull |-> TRUE, day |-> 0, named |-> FALSE, monthNumber |-> 0,
     monthName |-> <<>>, year |-> 0]

\* the n in {1, 2} with s[i .. i+n-1] digits and s[i+n] a separator; 0 if none
DigitsThenSeparator(s, i) ==
    IF i + 2 <= Len(s) /\ AllDigits(s, i, i + 1) /\ IsSeparator(s[i + 2]) THEN 2
    ELSE IF i + 1 <= Len(s) /\ IsDigit(s[i]) /\ IsSeparator(s[i + 1]) THEN 1
    ELSE 0

\* /(\d{1,2})[\/\-](\d{1,2})[\/\-](\d{4})/ matched at position i
NumericAt(s, i) ==
    With(DigitsThenSeparator(s, i), LAMBDA n1 :
    With(i + n1 + 1, LAMBDA j :
    With(IF n1 = 0 THEN 0 ELSE DigitsThenSeparator(s, j), LAMBDA n2 :
    With(j + n2 + 1, LAMBDA k :
        IF n1 > 0 /\ n2 > 0 /\ k + 3 <= Len(s) /\ AllDigits(s, k, k + 3)
        THEN [isNull |-> FALSE,
              day |-> parseInt(SubSeq(s, i, i + n1 - 1)),
              named |-> FALSE,
              monthNumber |-> parseInt(SubSeq(s, j, j + n2 - 1)),
              monthName |-> <<>>,
              year |-> parseInt(SubSeq(s, k, k + 3))]
        ELSE NoParts))))

OrdinalSuffixes ==
    { <<"s", "t">>, <<"n", "d">>, <<"r", "d">>, <<"t", "h">> }

\* /([A-Za-z]+)\s+(\d{4})/ matched at position r: the month name and the year
NameAndYearAt(s, from) ==
    With(from, LAMBDA r :
    With(RunLen(IsLetter, s, r), LAMBDA l :
    With(RunLen(IsSpace, s, r + l), LAMBDA w :
    With(r + l + w, LAMBDA k :
        IF l >= 1 /\ w >= 1 /\ k + 3 <= Len(s) /\ AllDigits(s, k, k + 3)
        THEN [ok |-> TRUE, monthName |-> SubSeq(s, r, r + l - 1),
              year |-> parseInt(SubSeq(s, k, k + 3))]
        ELSE [ok |-> FALSE, monthName |-> <<>>, year |-> 0]))))

\* /(\d{1,2})(?:st|nd|rd|th)?\s+(?:of\s+)?([A-Za-z]+)\s+(\d{4})/ at position i
TextAt(s, i) ==
    With(RunLen(IsDigit, s, i), LAMBDA n1 :
    With(i + n1, LAMBDA p :
    With(IF p + 1 <= Len(s) /\ SubSeq(s, p, p + 1) \in OrdinalSuffixes
            /\ RunLen(IsSpace, s, p + 2) >= 1
         THEN 2 ELSE 0, LAMBDA suf :
    With(RunLen(IsSpace, s, p + suf), LAMBDA w1 :
    With(p + suf + w1, LAMBDA r :
    With(RunLen(IsSpace, s, r + 2), LAMBDA w2 :
    With(IF r + 1 <= Len(s) /\ SubSeq(s, r, r + 1) = <<"o", "f">> /\ w2 >= 1
         THEN NameAndYearAt(s, r + 2 + w2)
         ELSE [ok |-> FALSE, monthName |-> <<>>, year |-> 0], LAMBDA withOf :
    With(IF withOf.ok THEN withOf ELSE NameAndYearAt(s, r), LAMBDA tail :
        IF n1 \in {1, 2} /\ w1 >= 1 /\ tail.ok
        THEN [isNull |-> FALSE,
              day |-> parseInt(SubSeq(s, i, i + n1 - 1)),
              named |-> TRUE,
              monthNumber |-> 0,
              monthName |-> tail.monthName,
              year |-> tail.year]
        ELSE NoParts))))))))

\* String.prototype.match without the g flag: the leftmost position that matches
FirstMatch(At(_, _), s) ==
    With({i \in 1..Len(s) : ~At(s, i).isNull}, LAMBDA hits :
        IF hits = {} THEN NoParts
        ELSE With(CHOOSE i \in hits : \A j \in hits : i <= j, LAMBDA i : At(s, i)))

parseHebrewDate(dateStr) ==
    With(FirstMatch(NumericAt, dateStr), LAMBDA numericMatch :
        IF ~numericMatch.isNull THEN numericMatch
        ELSE FirstMatch(TextAt, dateStr))

(***************************************************************************)
(* getJewishSeason (src/ai.ts:350-356), getWeeklyParsha (src/ai.ts:358-376)*)
(***************************************************************************)
\* the table with Adar and the leap month counted with the months after them
getJewishSeasonAdarInWinter(h) ==
    IF h.mm >= 12 \/ h.mm <= 3 THEN "Winter"
    ELSE IF h.mm >= 4 /\ h.mm <= 6 THEN "Spring"
    ELSE IF h.mm >= 7 /\ h.mm <= 9 THEN "Summer"
    ELSE "Fall"

getJewishSeason(h) ==
    IF h.mm >= 1 /\ h.mm <= 3 THEN "Winter"
    ELSE IF h.mm >= 4 /\ h.mm <= 6 THEN "Spring"
    ELSE IF h.mm >= 7 /\ h.mm <= 9 THEN "Summer"
    ELSE "Fall"

getWeeklyParsha(h) ==
    With(onOrAfter(7, HAbs(h)), LAMBDA saturday :
    With(calendar(DayOptions(saturday)), LAMBDA events :
    With({i \in 1..Len(events) : HasCategory(events[i], "parashat")}, LAMBDA found :
        IF ProviderRaises(abs2greg(saturday).yy) THEN Null
        ELSE IF found = {} THEN Null
        ELSE events[CHOOSE i \in found : \A j \in found : i <= j].render)))

(***************************************************************************)
(* convertDate (src/ai.ts:205-316)                                         *)
(***************************************************************************)
GregorianFields(date) ==
    With(date, LAMBDA d :
        [formatted |-> LongDate(LocalDay(d, env)),
         iso       |-> IsoText(UtcDay(d, env)),
         dayOfWeek |-> DayOfWeek(LocalDay(d, env))])

HebrewFields(h) ==
    [formatted   |-> HDateText(h),
     hebrewYear  |-> h.yy,
     hebrewMonth |-> getMonthName(h),
     hebrewDay   |-> h.dd,
     dayOfWeek   |-> DayOfWeek(LocalDay(HGreg(h), env)),
     isLeapYear  |-> isLeapYear(h.yy),
     daysInMonth |-> daysInMonth(h.mm, h.yy)]

isRoshChodesh(h) == h.dd = 1 \/ (h.dd = 30 /\ daysInMonth(h.mm, h.yy) = 30)

ConvertFailure(text) == [success |-> FALSE, error |-> text]

InvalidGregorian(inputDate) ==
    ConvertFailure(<<"Invalid Gregorian date format: ">> \o inputDate
                   \o <<". Please use YYYY-MM-DD format.">>)

InvalidHebrew(inputDate) ==
    ConvertFailure(<<"Invalid Hebrew date format: ">> \o inputDate
                   \o <<". Please use formats like \"15 Tishrei 5785\" or \"15/1/5785\".">>)

ConvertCaught(err) ==
    ConvertFailure(<<"Error converting date: ">> \o ErrorMessage(err))

\* the result of the gregorian branch, src/ai.ts:219-256
GregorianToHebrew(inputDate, gregorianDate) ==
    With(HDateOfDate(gregorianDate, env), LAMBDA hDate :
             [success        |-> TRUE,
              inputDate      |-> inputDate,
              inputCalendar  |-> "gregorian",
              outputCalendar |-> "hebrew",
              gregorianDate  |-> GregorianFields(gregorianDate),
              hebrewDate     |-> HebrewFields(hDate),
              additionalInfo |->
                  [julianDay     |-> HAbs(hDate),
                   isRoshChodesh |-> isRoshChodesh(hDate),
                   season        |-> getJewishSeason(hDate),
                   parsha        |-> getWeeklyParsha(hDate)]])

\* the gregorian branch without the isNaN guard of src/ai.ts:211-217: the
\* Invalid Date reaches new HDate, which raises, and the catch reports it
FromGregorianUnguarded(inputDate) ==
    With(DateParse(inputDate, env), LAMBDA gregorianDate :
        IF ~gregorianDate.valid
        THEN ConvertCaught([isError |-> TRUE, message |-> <<"Invalid time value">>])
        ELSE GregorianToHebrew(inputDate, gregorianDate))

FromGregorian(inputDate) ==
    With(DateParse(inputDate, env), LAMBDA gregorianDate :
        IF ~gregorianDate.valid THEN InvalidGregorian(inputDate)
        ELSE GregorianToHebrew(inputDate, gregorianDate))

FromHebrew(inputDate) ==
    With(parseHebrewDate(inputDate), LAMBDA hebrewParts :
        IF hebrewParts.isNull THEN InvalidHebrew(inputDate)
        ELSE With(NewHDate(hebrewParts), LAMBDA made :
        IF ~made.ok
        THEN ConvertCaught([isError |-> TRUE, message |-> made.message])
        ELSE With(made.value, LAMBDA hDate :
             [success        |-> TRUE,
              inputDate      |-> inputDate,
              inputCalendar  |-> "hebrew",
              outputCalendar |-> "gregorian",
              hebrewDate     |-> HebrewFields(hDate),
              gregorianDate  |-> GregorianFields(HGreg(hDate)),
              additionalInfo |->
                  [julianDay     |-> HAbs(hDate),
                   isRoshChodesh |-> isRoshChodesh(hDate),
                   season        |-> getJewishSeason(hDate)]])))

convertDate(inputDate, fromCalendar) ==
    IF fromCalendar = "gregorian" THEN FromGregorian(inputDate)
    ELSE FromHebrew(inputDate)

(***************************************************************************)
(* Formatting shared by the finder and the lister                          *)
(***************************************************************************)
\* array.join(", ")
RECURSIVE Join(_)
Join(cats) ==
    With(cats, LAMBDA c :
        IF c = <<>> THEN <<>>
        ELSE IF Len(c) = 1 THEN <<c[1]>>
        ELSE <<c[1], ", ">> \o Join(Tail(c)))

\* a || null, for a text
OrNull(t) == IF t = <<>> \/ t = Null THEN Null ELSE t

\* eventAny.fmtTime || eventAny.eventTimeStr
ClockText(e) == IF OrNull(e.fmtTime) # Null THEN e.fmtTime ELSE e.eventTimeStr

\* toLocaleTimeString("en-US", {hour: "numeric", minute: "2-digit", hour12: true})
TimeText(minutes) ==
    With(minutes \div 60, LAMBDA h :
        NumText(IF h % 12 = 0 THEN 12 ELSE h % 12) \o <<":">> \o Pad2(minutes % 60)
            \o (IF h < 12 THEN <<" ", "A", "M">> ELSE <<" ", "P", "M">>))

\* hd.toString() of the event's date
EventHebrewText(e) == HDateText(abs2hebrew(e.abs))

\* hd.greg().toLocaleDateString("en-US", {weekday, year, month, day})
EventLongDate(e) == LongDate(LocalDay(LocalMidnight(e.abs), env))

(***************************************************************************)
(* findJewishHoliday (src/ai.ts:15-203)                                    *)
(***************************************************************************)
\* the filter in one direction only: the description contains the term
MatchesOneWay(e, holidayName) ==
    With(toLowerCase(e.render), LAMBDA eventDesc :
    With(toLowerCase(holidayName), LAMBDA searchName :
        includes(eventDesc, searchName)))

\* the filter of src/ai.ts:33-37
Matches(e, holidayName) ==
    With(toLowerCase(e.render), LAMBDA eventDesc :
    With(toLowerCase(holidayName), LAMBDA searchName :
        includes(eventDesc, searchName) \/ includes(searchName, eventDesc)))

\* the sub-fields attached by sniffing the description, src/ai.ts:84-94
TimeFields(e) ==
    With(ClockText(e), LAMBDA t :
        IF includes(e.desc, TxtCandleLighting)
        THEN [candleLightingTime |-> t, havdalahTime |-> Null, havdalahMins |-> 0,
              fastBeginTime |-> Null, fastEndTime |-> Null]
        ELSE IF includes(e.desc, TxtHavdalah)
        THEN [candleLightingTime |-> Null, havdalahTime |-> t, havdalahMins |-> e.mins,
              fastBeginTime |-> Null, fastEndTime |-> Null]
        ELSE IF includes(e.desc, TxtFastBegins)
        THEN [candleLightingTime |-> Null, havdalahTime |-> Null, havdalahMins |-> 0,
              fastBeginTime |-> t, fastEndTime |-> Null]
        ELSE IF includes(e.desc, TxtFastEnds)
        THEN [candleLightingTime |-> Null, havdalahTime |-> Null, havdalahMins |-> 0,
              fastBeginTime |-> Null, fastEndTime |-> t]
        ELSE [candleLightingTime |-> Null, havdalahTime |-> Null, havdalahMins |-> 0,
              fastBeginTime |-> Null, fastEndTime |-> Null])

\* src/ai.ts:106-113
EventType(e) ==
    IF includes(e.desc, TxtCandleLighting) THEN "candle_lighting"
    ELSE IF includes(e.desc, TxtHavdalah) THEN "havdalah"
    ELSE IF HasCategory(e, "holiday") THEN "holiday"
    ELSE "none"

\* src/ai.ts:116-125
Flags(e) ==
    [isHoliday        |-> HasCategory(e, "holiday"),
     isCandleLighting |-> includes(e.desc, TxtCandleLighting),
     isHavdalah       |-> includes(e.desc, TxtHavdalah),
     isRoshChodesh    |-> HasCategory(e, "roshchodesh"),
     isModernHoliday  |-> HasCategory(e, "modern"),
     isMinorHoliday   |-> HasCategory(e, "minor"),
     isMajorHoliday   |-> HasCategory(e, "major"),
     isFast           |-> HasCategory(e, "fast")]

\* one entry of holidayDetails, src/ai.ts:47-128
HolidayDetails(e) ==
    [name          |-> e.render,
     gregorianDate |-> EventLongDate(e),
     hebrewDate    |-> EventHebrewText(e),
     hebrewYear    |-> abs2hebrew(e.abs).yy,
     category      |-> Join(e.categories),
     description   |-> e.desc,
     url           |-> OrNull(e.url),
     memo          |-> Null,
     eventTime     |-> IF e.eventTime # 0 THEN TimeText(e.eventTime) ELSE Null,
     eventTimeStr  |-> IF e.eventTime # 0 THEN OrNull(e.eventTimeStr) ELSE Null,
     fmtTime       |-> IF e.eventTime # 0 THEN OrNull(e.fmtTime) ELSE Null,
     times         |-> TimeFields(e),
     location      |-> NewYork,
     eventType     |-> EventType(e),
     flags         |-> Flags(e)]

\* the tags without "candles"
IsZmanimEventNoCandles(e) ==
    \/ HasCategory(e, "havdalah")
    \/ HasCategory(e, "zmanim")

\* src/ai.ts:135-138
IsZmanimEvent(e) ==
    \/ HasCategory(e, "candles")
    \/ HasCategory(e, "havdalah")
    \/ HasCategory(e, "zmanim")

Abs(n) == IF n < 0 THEN -n ELSE n

\* the filter with a window of one day
IsRelatedWithinOne(e, holidayDates) ==
    /\ IsZmanimEvent(e)
    /\ \E i \in 1..Len(holidayDates) : Abs(e.abs - holidayDates[i]) <= 1

\* the filter of src/ai.ts:133-145
IsRelated(e, holidayDates) ==
    /\ IsZmanimEvent(e)
    /\ \E i \in 1..Len(holidayDates) : Abs(e.abs - holidayDates[i]) <= 2

\* one entry of relatedZmanim, src/ai.ts:146-183
ZmanimDetails(e) ==
    [name          |-> e.render,
     gregorianDate |-> EventLongDate(e),
     hebrewDate    |-> EventHebrewText(e),
     category      |-> Join(e.categories),
     description   |-> e.desc,
     time          |-> IF e.eventTime # 0 THEN ClockText(e) ELSE Null,
     eventTime     |-> IF e.eventTime # 0 THEN TimeText(e.eventTime) ELSE Null,
     havdalahMins  |-> e.mins]

MapSeq(F(_), seq) == With(seq, LAMBDA v : [i \in 1..Len(v) |-> With(v[i], F)])

FindCaught(err) ==
    [found |-> FALSE,
     error |-> <<"Error finding holiday: ">> \o ErrorMessage(err)]

\* a zero-match result that reports the miss as an error
NotFoundAsError(year, holidayName) ==
    [found |-> FALSE,
     error |-> <<"No holiday found matching \"">> \o holidayName
                  \o <<"\" in ">> \o NumText(year)]

NotFound(year, holidayName) ==
    [found   |-> FALSE,
     message |-> <<"No holiday found matching \"">> \o holidayName
                    \o <<"\" in ">> \o NumText(year)
                    \o <<". Try using the ", "listJewishHolidays",
                         " tool to see all available holidays.">>]

findJewishHoliday(year, holidayName) ==
    IF ProviderRaises(year) THEN FindCaught(ProviderError)
    ELSE
    With(calendar(YearOptions(year, TRUE)), LAMBDA events :
    With(SelectSeq(events, LAMBDA e : Matches(e, holidayName)),
         LAMBDA matchingHolidays :
        IF Len(matchingHolidays) = 0 THEN NotFound(year, holidayName)
        ELSE
    With(MapSeq(LAMBDA e : e.abs, matchingHolidays), LAMBDA holidayDates :
    With(SelectSeq(events, LAMBDA e : IsRelated(e, holidayDates)), LAMBDA related :
             [found         |-> TRUE,
              year          |-> year,
              searchTerm    |-> holidayName,
              holidays      |-> MapSeq(HolidayDetails, matchingHolidays),
              relatedZmanim |-> MapSeq(ZmanimDetails, related),
              zmanimCount   |-> Len(related),
              locationNote  |->
                  <<"Times calculated for New York. Actual times may vary by location.">>]))))

(***************************************************************************)
(* listJewishHolidays (src/ai.ts:378-418)                                  *)
(***************************************************************************)
\* one entry of the list, src/ai.ts:385-398
ListEntry(e) ==
    [name          |-> e.render,
     gregorianDate |-> ShortDate(LocalDay(LocalMidnight(e.abs), env)),
     hebrewDate    |-> EventHebrewText(e),
     category      |-> Join(e.categories)]

\* new Date(a.gregorianDate + `, ${year}`)
SortKey(entry, year) ==
    DateParse(entry.gregorianDate \o <<",", " ">> \o NumText(year), env)

\* the comparator the other way round: dateB.getTime() - dateA.getTime()
CompareDescending(a, b, year) ==
    With(SortKey(a, year), LAMBDA dateA :
    With(SortKey(b, year), LAMBDA dateB :
        IF dateA.valid /\ dateB.valid THEN dateB.day - dateA.day ELSE 0))

\* the comparator of src/ai.ts:399-404: dateA.getTime() - dateB.getTime(); a
\* NaN difference counts as 0
Compare(a, b, year) ==
    With(SortKey(a, year), LAMBDA dateA :
    With(SortKey(b, year), LAMBDA dateB :
        IF dateA.valid /\ dateB.valid THEN dateA.day - dateB.day ELSE 0))

\* an unstable sort: where x lands among its equals depends on how many
\* calls have run before
RECURSIVE InsertSortedUnstable(_, _, _)
InsertSortedUnstable(x, sorted, year) ==
    With(sorted, LAMBDA v :
        IF v = <<>> THEN <<x>>
        ELSE IF Compare(Head(v), x, year) < (IF Len(done) % 2 = 0 THEN 1 ELSE 0)
        THEN <<Head(v)>> \o InsertSortedUnstable(x, Tail(v), year)
        ELSE <<x>> \o v)

\* x placed after every element that does not compare greater than it
RECURSIVE InsertSorted(_, _, _)
InsertSorted(x, sorted, year) ==
    With(sorted, LAMBDA v :
        IF v = <<>> THEN <<x>>
        ELSE IF Compare(Head(v), x, year) <= 0
        THEN <<Head(v)>> \o InsertSorted(x, Tail(v), year)
        ELSE <<x>> \o v)

\* Array.prototype.sort with that comparator: a stable sort
RECURSIVE SortEntries(_, _)
SortEntries(entries, year) ==
    With(entries, LAMBDA v :
        IF v = <<>> THEN <<>>
        ELSE With(v[Len(v)], LAMBDA last :
                 InsertSorted(last, SortEntries(SubSeq(v, 1, Len(v) - 1), year),
                              year)))

ListCaught(err) ==
    [error |-> <<"Error listing holidays: ">> \o ErrorMessage(err)]

listJewishHolidays(year) ==
    IF ProviderRaises(year) THEN ListCaught(ProviderError)
    ELSE
    With(calendar(YearOptions(year, FALSE)), LAMBDA events :
    With(SortEntries(MapSeq(ListEntry, events), year), LAMBDA holidays :
        [year |-> year, totalHolidays |-> Len(holidays), holidays |-> holidays]))

(***************************************************************************)
(* Inputs                                                                  *)
(***************************************************************************)
MaxEvents == 3

MaxSamples == 40

MaxCalls == 3

MaxMessages == 1

Years == {2024, 2025}

\* the provider's events for a run: at most MaxEvents of the pool
Worlds == {X \in SUBSET (1..Len(EventPool)) : Cardinality(X) <= MaxEvents}

NoFault == [year |-> 0, isError |-> TRUE]

Faults == {NoFault} \cup [year : Years, isError : BOOLEAN]

HolidayNames ==
    { <<>>,
      <<"p", "e", "s", "a", "c", "h">>,
      <<"P", "e", "s", "a", "c", "h", " ", "I">>,
      <<"E", "r", "e", "v", " ", "P", "e", "s", "a", "c", "h", " ", "2", "0", "2", "4">>,
      <<"c", "a", "n", "d", "l", "e", " ", "l", "i", "g", "h", "t", "i", "n", "g">>,
      <<"P", "U", "R", "I", "M">> }

\* civil days from 10 September 2023 on, eleven days apart
SampleDays == {greg2abs(2023, 9, 10) + 11 * k : k \in 0..MaxSamples}

GregorianInputs ==
    {IsoText(d) : d \in SampleDays} \cup
    { <<>>,
      <<"n", "o", "t", "-", "a", "-", "d", "a", "t", "e">>,
      <<"2", "0", "2", "4", "-", "1", "3", "-", "0", "1">>,
      <<"2", "0", "2", "4", "-", "0", "2", "-", "3", "0">>,
      <<"2", "0", "2", "4", "-", "0", "2", "-", "3", "2">>,
      <<"2", "0", "2", "4", "-", "0", "0", "-", "1", "0">> }

HebrewInputs ==
    { <<"1", "5", " ", "T", "i", "s", "h", "r", "e", "i", " ", "5", "7", "8", "5">>,
      <<"1", "5", "t", "h", " ", "o", "f", " ", "T", "i", "s", "h", "r", "e", "i", " ", "5", "7", "8", "5">>,
      <<"1", "5", "/", "1", "/", "5", "7", "8", "5">>,
      <<"1", "5", "-", "1", "3", "-", "5", "7", "8", "5">>,
      <<"4", "0", " ", "T", "i", "s", "h", "r", "e", "i", " ", "5", "7", "8", "5">>,
      <<"0", " ", "T", "i", "s", "h", "r", "e", "i", " ", "5", "7", "8", "5">>,
      <<"3", "0", " ", "C", "h", "e", "s", "h", "v", "a", "n", " ", "5", "7", "8", "5">>,
      <<"1", "5", "/", "1", "3", "/", "5", "7", "8", "4">>,
      <<"1", "5", "/", "1", "5", "/", "5", "7", "8", "5">>,
      <<"1", "5", " ", "F", "o", "o", " ", "5", "7", "8", "5">>,
      <<"T", "i", "s", "h", "r", "e", "i", " ", "5", "7", "8", "5">>,
      <<"o", "n", " ", "3", "r", "d", " ", "A", "d", "a", "r", " ", "5", "7", "8", "4", " ", "p", "l", "e", "a", "s", "e">> }

Call(tool, year, text, from) ==
    [tool |-> tool, year |-> year, text |-> text, from |-> from]

FindCalls == {Call("findJewishHoliday", y, n, "") : y \in Years, n \in HolidayNames}

ListCalls == {Call("listJewishHolidays", y, <<>>, "") : y \in Years}

ConvertCalls ==
    {Call("convertDate", 0, t, "gregorian") : t \in GregorianInputs} \cup
    {Call("convertDate", 0, t, "hebrew") : t \in HebrewInputs}

(***************************************************************************)
(* The tools (src/ai.ts:437-492) and the chat loop (src/ai.ts:420-505)     *)
(***************************************************************************)
\* a tool that also records its result in the conversation
FinishRecording(call, result) ==
    /\ pending' = pending \ {call}
    /\ done' = Append(done, [call |-> call, result |-> result])
    /\ messages' = Append(messages, "tool")
    /\ UNCHANGED <<env, world, faultAt, turn>>

Finish(call, result) ==
    /\ pending' = pending \ {call}
    /\ done' = Append(done, [call |-> call, result |-> result])
    /\ UNCHANGED <<env, world, faultAt, messages, turn>>

\* tools.findJewishHoliday.execute
ExecuteFind ==
    \E call \in pending :
        /\ call.tool = "findJewishHoliday"
        /\ Finish(call, findJewishHoliday(call.year, call.text))

\* tools.listJewishHolidays.execute
ExecuteList ==
    \E call \in pending :
        /\ call.tool = "listJewishHolidays"
        /\ Finish(call, listJewishHolidays(call.year))

\* tools.convertDate.execute
ExecuteConvert ==
    \E call \in pending :
        /\ call.tool = "convertDate"
        /\ Finish(call, convertDate(call.text, call.from))

\* the harness feeds the Hebrew date one conversion reported into another
FeedBack ==
    \E i \in 1..Len(done) :
        /\ turn = "streaming"
        /\ done[i].call.tool = "convertDate"
        /\ done[i].call.from = "gregorian"
        /\ done[i].result.success
        /\ Cardinality(pending) + Len(done) < MaxCalls
        /\ LET back == Call("convertDate", 0, done[i].result.hebrewDate.formatted,
                            "hebrew")
           IN  /\ back \notin pending
               /\ \A k \in 1..Len(done) : done[k].call # back
               /\ pending' = pending \cup {back}
        /\ UNCHANGED <<env, world, faultAt, messages, done, turn>>

SystemCalls ==
    { Call("findJewishHoliday", 2024, <<"p", "e", "s", "a", "c", "h">>, ""),
      Call("listJewishHolidays", 2024, <<>>, ""),
      Call("convertDate", 0, IsoText(greg2abs(2024, 4, 23)), "gregorian"),
      Call("convertDate", 0, <<"1", "5", " ", "F", "o", "o", " ", "5", "7", "8", "5">>, "hebrew") }

\* the model asks for a tool while it streams its reply
Issue ==
    \E call \in SystemCalls :
        /\ turn = "streaming"
        /\ call \notin pending
        /\ Cardinality(pending) + Len(done) < MaxCalls
        /\ pending' = pending \cup {call}
        /\ UNCHANGED <<env, world, faultAt, messages, done, turn>>

\* messages.push({role: "user", ...}), then streamText
UserTurn ==
    /\ turn = "idle"
    /\ Len(messages) < 2 * MaxMessages
    /\ messages' = Append(messages, "user")
    /\ turn' = "streaming"
    /\ UNCHANGED <<env, world, faultAt, pending, done>>

\* the stream ends; messages.push({role: "assistant", ...})
AssistantReply ==
    /\ turn = "streaming"
    /\ pending = {}
    /\ messages' = Append(messages, "assistant")
    /\ turn' = "idle"
    /\ UNCHANGED <<env, world, faultAt, pending, done>>

(***************************************************************************)
(* Specifications                                                          *)
(***************************************************************************)
SystemWorlds == { {2, 3, 5, 6}, {1, 9, 10} }

\* the provider works, or its calendar call raises an Error for 2024
SystemFaults == {NoFault, [year |-> 2024, isError |-> TRUE]}

\* the whole program: the chat loop and the tools it runs
Init ==
    /\ env \in LenientZones
    /\ world \in SystemWorlds
    /\ faultAt \in SystemFaults
    /\ messages = <<>>
    /\ pending = {}
    /\ done = <<>>
    /\ turn = "idle"

Next ==
    \/ UserTurn
    \/ Issue
    \/ ExecuteFind
    \/ ExecuteList
    \/ ExecuteConvert
    \/ FeedBack
    \/ AssistantReply

Spec == Init /\ [][Next]_vars

\* one tool call in the middle of a turn
InitCall(calls, envs, worlds) ==
    /\ env \in envs
    /\ world \in worlds
    /\ faultAt \in Faults
    /\ messages = <<"user">>
    /\ pending \in {{c} : c \in calls}
    /\ done = <<>>
    /\ turn = "streaming"

\* convertDate over its inputs, and the round trip through FeedBack
InitConvert == InitCall(ConvertCalls, Environments, {{}, {9}})

NextConvert == ExecuteConvert \/ FeedBack

SpecConvert == InitConvert /\ [][NextConvert]_vars

\* findJewishHoliday over the provider's worlds and the search terms
InitFind == InitCall(FindCalls, LenientZones, Worlds)

NextFind == ExecuteFind

SpecFind == InitFind /\ [][NextFind]_vars

\* listJewishHolidays over the provider's worlds
InitList == InitCall(ListCalls, LenientZones, Worlds)

NextList == ExecuteList

SpecList == InitList /\ [][NextList]_vars

(***************************************************************************)
(* Properties of convertDate, checked under SpecConvert                    *)
(***************************************************************************)
IsConvert(d, from) == d.call.tool = "convertDate" /\ d.call.from = from

\* the text is the ISO form of a day of the civil calendar
IsCivilDate(text) ==
    /\ IsoShape(text)
    /\ With(DateParse(text, [tz |-> 0, lenient |-> FALSE]), LAMBDA date :
           date.valid /\ IsoText(date.day) = text)

\* C1: round trip.  In an environment on UTC, when a civil date D has been
\* converted to a Hebrew date and the formatted Hebrew date it reported has
\* been converted back, the second conversion succeeded and its Gregorian
\* date is D.
C1_RoundTrip ==
    \A i \in 1..Len(done) : \A k \in 1..Len(done) :
        ( /\ env.tz = 0
          /\ IsConvert(done[i], "gregorian")
          /\ IsCivilDate(done[i].call.text)
          /\ done[i].result.success
          /\ IsConvert(done[k], "hebrew")
          /\ done[k].call.text = done[i].result.hebrewDate.formatted )
        => /\ done[k].result.success
           /\ done[k].result.gregorianDate.iso = done[i].call.text

\* the parsed triple names a day of the Hebrew calendar: a month of that
\* year and a day of that month
IsRealHebrewDate(parts) ==
    With(IF parts.named THEN monthFromName(parts.monthName)
         ELSE Returned(parts.monthNumber), LAMBDA m :
        /\ m.ok
        /\ m.value \in 1..monthsInYear(parts.year)
        /\ parts.day \in 1..daysInMonth(m.value, parts.year))

\* C2: a Hebrew input whose parsed (day, month, year) is not a real Hebrew
\* date is answered with success:false.
C2_UnrealHebrewRejected ==
    \A i \in 1..Len(done) :
        ( /\ IsConvert(done[i], "hebrew")
          /\ With(parseHebrewDate(done[i].call.text), LAMBDA parts :
                 ~parts.isNull /\ ~IsRealHebrewDate(parts)) )
        => ~done[i].result.success

IsFind(d) == d.call.tool = "findJewishHoliday"

\* the full-year calendar the provider gives the finder
FullYear(d) == calendar(YearOptions(d.call.year, TRUE))

\* the description contains the term or the term contains the description,
\* letter case aside
Mentions(e, term) ==
    With(toLowerCase(e.render), LAMBDA a :
    With(toLowerCase(term), LAMBDA b :
        (\E i \in 0..(Len(a) - Len(b)) : SubSeq(a, i + 1, i + Len(b)) = b)
        \/ (\E i \in 0..(Len(b) - Len(a)) : SubSeq(b, i + 1, i + Len(a)) = a)))

Mentioned(d) == SelectSeq(FullYear(d), LAMBDA e : Mentions(e, d.call.text))

\* C4: when the provider has answered, an event whose description has the
\* search string as a substring is among the holidays of a found:true
\* result, and the holidays returned are exactly the events that mention the
\* term or are mentioned by it, letter case aside, in the provider's order.
C4_MatchedSetExact ==
    \A i \in 1..Len(done) :
        (IsFind(done[i]) /\ ~ProviderRaises(done[i].call.year))
        => With(FullYear(done[i]), LAMBDA events :
           With(Mentioned(done[i]), LAMBDA hits :
               /\ \A k \in 1..Len(events) :
                      includes(events[k].render, done[i].call.text)
                      => /\ done[i].result.found
                         /\ \E j \in 1..Len(done[i].result.holidays) :
                                done[i].result.holidays[j].name = events[k].render
               /\ done[i].result.found = (Len(hits) > 0)
               /\ done[i].result.found
                  => done[i].result.holidays = MapSeq(HolidayDetails, hits)))

\* a search term longer than the description it matches has found that event
\* among others it left out
C4_Witness ==
    \E i \in 1..Len(done) :
        /\ IsFind(done[i])
        /\ done[i].result.found
        /\ Len(done[i].result.holidays) < Len(FullYear(done[i]))
        /\ \E j \in 1..Len(done[i].result.holidays) :
               Len(done[i].result.holidays[j].name) < Len(done[i].call.text)

\* C5: when the provider has answered, the result carries a guidance message
\* exactly when no event of the year matches the term; that result is
\* {found: false, message}, its message names the listJewishHolidays tool,
\* and it has no holidays and no relatedZmanim.
C5_NotFoundExactlyOnNoMatch ==
    \A i \in 1..Len(done) :
        (IsFind(done[i]) /\ ~ProviderRaises(done[i].call.year))
        => /\ ("message" \in DOMAIN done[i].result) = (Len(Mentioned(done[i])) = 0)
           /\ "message" \in DOMAIN done[i].result
              => /\ DOMAIN done[i].result = {"found", "message"}
                 /\ ~done[i].result.found
                 /\ \E j \in 1..Len(done[i].result.message) :
                        done[i].result.message[j] = "listJewishHolidays"

\* a search over a calendar with events has matched none of them
C5_Witness ==
    \E i \in 1..Len(done) :
        /\ IsFind(done[i])
        /\ ~ProviderRaises(done[i].call.year)
        /\ Len(FullYear(done[i])) >= 2
        /\ "message" \in DOMAIN done[i].result

\* tagged candles, havdalah or zmanim, and at most two days from a matched
\* holiday
NearMatch(e, hits) ==
    /\ \E c \in {"candles", "havdalah", "zmanim"} : HasCategory(e, c)
    /\ \E k \in 1..Len(hits) :
           e.abs - hits[k].abs \in {-2, -1, 0, 1, 2}

\* C10: on a found:true result, relatedZmanim is exactly the events of the
\* full-year calendar tagged candles, havdalah or zmanim that lie at most two
\* days from a matched holiday, in the provider's order, and zmanimCount
\* counts them.
C10_RelatedZmanimExact ==
    \A i \in 1..Len(done) :
        (IsFind(done[i]) /\ done[i].result.found)
        => With(Mentioned(done[i]), LAMBDA hits :
           With(SelectSeq(FullYear(done[i]), LAMBDA e : NearMatch(e, hits)),
                LAMBDA near :
               /\ done[i].result.relatedZmanim = MapSeq(ZmanimDetails, near)
               /\ done[i].result.zmanimCount = Len(near)))

\* a found holiday has a time exactly two days away among its related
\* zmanim, and another result leaves out a time that lies further away
C10_Witness ==
    \E i \in 1..Len(done) :
        /\ IsFind(done[i])
        /\ done[i].result.found
        /\ With(Mentioned(done[i]), LAMBDA hits :
               \E k \in 1..Len(FullYear(done[i])) :
                   With(FullYear(done[i])[k], LAMBDA e :
                       /\ NearMatch(e, hits)
                       /\ \A m \in 1..Len(hits) :
                              e.abs - hits[m].abs \in {-2, 2}
                       /\ \E j \in 1..Len(done[i].result.relatedZmanim) :
                              done[i].result.relatedZmanim[j].name = e.render))
        /\ \E k \in 1..Len(FullYear(done[i])) :
               /\ IsZmanimEvent(FullYear(done[i])[k])
               /\ \A j \in 1..Len(done[i].result.relatedZmanim) :
                      done[i].result.relatedZmanim[j].name
                          # FullYear(done[i])[k].render

(***************************************************************************)
(* Properties of listJewishHolidays, checked under SpecList and Spec       *)
(***************************************************************************)
IsList(d) == d.call.tool = "listJewishHolidays"

\* the calendar the provider gives the lister
PlainYear(d) == calendar(YearOptions(d.call.year, FALSE))

\* the absolute day of the event an entry of the list was made from
DayOfEntry(entry, events) ==
    events[CHOOSE k \in 1..Len(events) : ListEntry(events[k]) = entry].abs

\* C6: the holidays of a list are the entries of the year's events, each
\* once, and the civil day of the event behind each entry is not after the
\* civil day of the event behind the next one.
C6_ListSortedByCivilDate ==
    \A i \in 1..Len(done) :
        (IsList(done[i]) /\ "holidays" \in DOMAIN done[i].result)
        => With(PlainYear(done[i]), LAMBDA events :
           With(done[i].result.holidays, LAMBDA holidays :
               /\ Len(holidays) = Len(events)
               /\ \A k \in 1..Len(events) :
                      \E j \in 1..Len(holidays) : holidays[j] = ListEntry(events[k])
               /\ \A j \in 1..Len(holidays) :
                      \E k \in 1..Len(events) : holidays[j] = ListEntry(events[k])
               /\ \A j \in 1..(Len(holidays) - 1) :
                      DayOfEntry(holidays[j], events)
                          <= DayOfEntry(holidays[j + 1], events)))

\* a list of three holidays on at least two different days has been returned
C6_Witness ==
    \E i \in 1..Len(done) :
        /\ IsList(done[i])
        /\ "holidays" \in DOMAIN done[i].result
        /\ Len(done[i].result.holidays) >= 3
        /\ done[i].result.holidays[1].gregorianDate
               # done[i].result.holidays[3].gregorianDate

Alone(call) ==
    CASE call.tool = "findJewishHoliday" -> findJewishHoliday(call.year, call.text)
      [] call.tool = "listJewishHolidays" -> listJewishHolidays(call.year)
      [] OTHER -> convertDate(call.text, call.from)

\* the provider's calendar call raised while the call ran
RaisedDuring(call) ==
    CASE call.tool \in {"findJewishHoliday", "listJewishHolidays"} ->
             ProviderRaises(call.year)
      [] call.from = "gregorian" ->
             With(DateParse(call.text, env), LAMBDA date :
                 /\ date.valid
                 /\ ProviderRaises(
                        abs2greg(onOrAfter(7, LocalDay(date, env))).yy))
      [] OTHER -> FALSE

\* a structured negative result carrying the message
IsNegative(call, result, message) ==
    /\ "error" \in DOMAIN result
    /\ includes(result.error, message)
    /\ CASE call.tool = "findJewishHoliday" ->
                DOMAIN result = {"found", "error"} /\ ~result.found
         [] call.tool = "listJewishHolidays" -> DOMAIN result = {"error"}
         [] OTHER -> DOMAIN result = {"success", "error"} /\ ~result.success

\* C8: whenever the provider raised an Error during a call, the call
\* returned a structured negative result carrying the Error's message.
C8_FaultReported ==
    \A i \in 1..Len(done) :
        (faultAt.isError /\ RaisedDuring(done[i].call))
        => IsNegative(done[i].call, done[i].result, ProviderError.message)

\* C9: every call returned what it returns when run alone, whatever ran
\* before it and whatever was in flight with it, and a step in which a tool
\* returns leaves the conversation's message list as it was.
C9_Independent ==
    /\ [](\A i \in 1..Len(done) : done[i].result = Alone(done[i].call))
    /\ [][done' # done => messages' = messages]_vars

\* a second call has returned after a different one while a third was in
\* flight
C9_Witness ==
    /\ Len(done) >= 2
    /\ done[1].call # done[2].call
    /\ pending # {}
    /\ turn = "streaming"

(***************************************************************************)
(* Properties of the weekly portion, the parser and the season, checked    *)
(* under SpecConvert                                                       *)
(***************************************************************************)
\* the nearest Saturday on or after the day, the day itself when it is one
NextSabbath(abs) == With(abs, LAMBDA a : a + ((6 - (a % 7)) % 7))

\* the name of the first parsha-tagged event the provider has on the day, or
\* null
ParshaOn(day) ==
    With(calendar(DayOptions(day)), LAMBDA events :
    With({k \in 1..Len(events) : HasCategory(events[k], "parashat")}, LAMBDA found :
        IF found = {} THEN Null
        ELSE events[CHOOSE k \in found : \A j \in found : k <= j].render))

\* C11: when the provider raises nothing, the parsha of a Gregorian to Hebrew
\* conversion is the name of the parsha-tagged event on the nearest Saturday
\* on or after the converted day, and null only when that Saturday has none.
C11_ParshaOfNextSabbath ==
    \A i \in 1..Len(done) :
        ( /\ faultAt = NoFault
          /\ IsConvert(done[i], "gregorian")
          /\ done[i].result.success )
        => done[i].result.additionalInfo.parsha
               = ParshaOn(NextSabbath(done[i].result.additionalInfo.julianDay))

\* s[from .. to] is a non-empty run of characters of one kind
Run(Is(_), s, from, to) ==
    /\ 1 <= from /\ from <= to /\ to <= Len(s)
    /\ \A i \in from..to : Is(s[i])

\* the whole string is <day>/<month>/<year>, with slashes or dashes
IsNumericShape(s) ==
    \E n1 \in {1, 2} : \E n2 \in {1, 2} :
        /\ Len(s) = n1 + n2 + 6
        /\ Run(IsDigit, s, 1, n1)
        /\ IsSeparator(s[n1 + 1])
        /\ Run(IsDigit, s, n1 + 2, n1 + n2 + 1)
        /\ IsSeparator(s[n1 + n2 + 2])
        /\ Run(IsDigit, s, n1 + n2 + 3, n1 + n2 + 6)

\* the whole string is "<day>[st|nd|rd|th] [of] <MonthName> <year>"
IsTextShape(s) ==
    \E n1 \in {1, 2} : \E suf \in {0, 2} :
    \E a \in 1..Len(s) : \E b \in a..Len(s) :
        /\ Run(IsDigit, s, 1, n1)
        /\ suf = 2 => /\ n1 + 2 <= Len(s)
                      /\ SubSeq(s, n1 + 1, n1 + 2) \in OrdinalSuffixes
        /\ \/ Run(IsSpace, s, n1 + suf + 1, a - 1)
           \/ \E o \in (n1 + suf + 2)..(a - 3) :
                  /\ Run(IsSpace, s, n1 + suf + 1, o - 1)
                  /\ s[o] = "o" /\ s[o + 1] = "f"
                  /\ Run(IsSpace, s, o + 2, a - 1)
        /\ Run(IsLetter, s, a, b)
        /\ Run(IsSpace, s, b + 1, Len(s) - 4)
        /\ Run(IsDigit, s, Len(s) - 3, Len(s))

\* C12: a Hebrew input that is not, as a whole, of the numeric shape or of
\* the text shape is parsed to null: the conversion answers with the
\* invalid-Hebrew-date-format failure.
C12_OnlyTwoShapes ==
    \A i \in 1..Len(done) :
        ( /\ IsConvert(done[i], "hebrew")
          /\ ~IsNumericShape(done[i].call.text)
          /\ ~IsTextShape(done[i].call.text) )
        => /\ ~done[i].result.success
           /\ done[i].result.error[1] = "Invalid Hebrew date format: "

\* the number of the Hebrew month with that name: Nisan is 1, Adar and
\* Adar I are 12, Adar II is 13
MonthNumberOf(name) ==
    IF name = AdarI THEN 12
    ELSE CHOOSE m \in 1..Len(MonthNames) : MonthNames[m] = name

\* C13: the season of a conversion, in either direction, is Winter for the
\* Hebrew months 1 to 3, Spring for 4 to 6, Summer for 7 to 9 and Fall for 10
\* to 13 of the Hebrew date it reports.
C13_SeasonTable ==
    \A i \in 1..Len(done) :
        (done[i].call.tool = "convertDate" /\ done[i].result.success)
        => With(MonthNumberOf(done[i].result.hebrewDate.hebrewMonth), LAMBDA m :
               /\ m \in 1..3 => done[i].result.additionalInfo.season = "Winter"
               /\ m \in 4..6 => done[i].result.additionalInfo.season = "Spring"
               /\ m \in 7..9 => done[i].result.additionalInfo.season = "Summer"
               /\ m \in 10..13 => done[i].result.additionalInfo.season = "Fall"
               /\ m \in 1..13)

\* a date of the leap month, month 13, has been converted from the Hebrew
\* side and its season is Fall
C13_Witness ==
    \E i \in 1..Len(done) :
        /\ IsConvert(done[i], "hebrew")
        /\ done[i].result.success
        /\ done[i].result.hebrewDate.hebrewMonth = MonthNames[13]
        /\ done[i].result.additionalInfo.season = "Fall"

(***************************************************************************)
(* The shape of a findJewishHoliday result, checked under SpecFind         *)
(***************************************************************************)
\* C14: a found:true result has a non-empty holidays array with one entry
\* per matched event in the provider's order, zmanimCount equal to the
\* length of relatedZmanim, and every matched event tagged candles, havdalah
\* or zmanim among its relatedZmanim; a found:false result has neither
\* holidays nor relatedZmanim.
C14_FindResultShape ==
    \A i \in 1..Len(done) :
        IsFind(done[i])
        => With(done[i].result, LAMBDA r :
           With(Mentioned(done[i]), LAMBDA hits :
               IF r.found
               THEN /\ Len(r.holidays) >= 1
                    /\ Len(r.holidays) = Len(hits)
                    /\ \A j \in 1..Len(hits) : r.holidays[j].name = hits[j].render
                    /\ r.zmanimCount = Len(r.relatedZmanim)
                    /\ \A j \in 1..Len(hits) :
                           (\E c \in {"candles", "havdalah", "zmanim"} :
                                HasCategory(hits[j], c))
                           => \E k \in 1..Len(r.relatedZmanim) :
                                  /\ r.relatedZmanim[k].name = hits[j].render
                                  /\ r.relatedZmanim[k].gregorianDate
                                         = r.holidays[j].gregorianDate
               ELSE /\ "holidays" \notin DOMAIN r
                    /\ "relatedZmanim" \notin DOMAIN r))

\* a candle-lighting time has been found as a holiday and is among the
\* related zmanim of its own result
C14_Witness ==
    \E i \in 1..Len(done) :
        /\ IsFind(done[i])
        /\ done[i].result.found
        /\ \E j \in 1..Len(done[i].result.holidays) :
               /\ done[i].result.holidays[j].flags.isCandleLighting
               /\ \E k \in 1..Len(done[i].result.relatedZmanim) :
                      done[i].result.relatedZmanim[k].name
                          = done[i].result.holidays[j].name

====
